---- MODULE Spec2Model ----
(***************************************************************************)
(* InteroperabilityClient (src/src/interop/client.py) and the serializers  *)
(* it uses (src/src/interop/serializers.py).                               *)
(*                                                                         *)
(* Spec     : the HTTP client: __request (the reauthentication loop),      *)
(*            login and wait_for_server, one step per statement that       *)
(*            touches the network, the Session or the shutdown flag.       *)
(* SerSpec  : the pure conversions (get_active_mission's scan,             *)
(*            ObstaclesDeserializer.from_dict, TargetSerializer.from_dict).*)
(***************************************************************************)
EXTENDS Integers, Sequences, FiniteSets, TLC

\* ------------------------------------------------------------------ bounds
\* Sessions the client may create in one run (bounds the FORBIDDEN answers).
MaxSessions == 3
\* Failed probes the server may give one wait_for_server call.
MaxProbeFails == 2
\* Longest list of missions / obstacles in a payload.
MaxList == 2

\* --------------------------------------------------------------- constants
\* requests.codes.FORBIDDEN
FORBIDDEN == 403
\* The value of a name that holds no Response (None, or never assigned).
NoResponse == 0
\* No session (requests.get of the probe uses none).
NoSession == 0 - 1

\* Callers that may use one client instance; Spec runs the first alone.
Callers == {1, 2}
SeqCallers == {1}

\* Timeout values a client may be constructed with.
Timeouts == {5, 10}

\* The requests the resource methods build: (method, uri, body).
NoReq == [method |-> "", uri |-> "", body |-> ""]
Requests ==
    { [method |-> "GET", uri |-> "/api/obstacles", body |-> ""],
      [method |-> "POST", uri |-> "/api/targets", body |-> "json_target"] }

\* Status codes a server may answer with: one or two of each class.
Statuses == {100, 200, 204, 304, FORBIDDEN, 404, 500}
\* Failures of the transport, raised by requests instead of a Response.
TransportErrors == {"Timeout", "ConnectionError"}
\* What one HTTP exchange yields: a status, or a transport error.
Answers ==
    { [status |-> s, error |-> ""] : s \in Statuses } \cup
    { [status |-> NoResponse, error |-> e] : e \in TransportErrors }

VARIABLES
    shutdown,    \* rospy.is_shutdown()
    timeout,     \* self.timeout
    session,     \* self.session: the identity of the current Session
    created,     \* number of Session objects created so far
    closed,      \* the Sessions on which close() was called
    pc,          \* per caller: where its call stands
    op,          \* per caller: "request", "login" or "wait"
    req,         \* per caller: the arguments of __request
    inflight,    \* per caller: the Session its request in flight was sent on
    response,    \* per caller: the local variable response of __request
    reachable,   \* per caller: the local variable reachable of wait_for_server
    cancelSeen,  \* per caller: is_shutdown() was read as True by this call
    outcome,     \* per caller: how the call ended
    trace,       \* per caller: what the call did, in order
    serOp,       \* which pure conversion is exercised
    serIn,       \* its input
    serOut,      \* its result
    serDone      \* the conversion has been applied

clientVars == <<shutdown, timeout, session, created, closed, pc, op, req,
                inflight, response, reachable, cancelSeen, outcome, trace>>
serVars == <<serOp, serIn, serOut, serDone>>
vars == <<clientVars, serVars>>

\* ------------------------------------------------------------ the outcomes
NoOutcome == [kind |-> "none", response |-> NoResponse, error |-> "", code |-> NoResponse]
Returned(r) == [kind |-> "returned", response |-> r, error |-> "", code |-> NoResponse]
Raised(e, c) == [kind |-> "raised", response |-> NoResponse, error |-> e, code |-> c]

\* One entry of a call's trace.
Ev(e, s, r, st, err, t) ==
    [e |-> e, session |-> s, req |-> r, status |-> st, error |-> err, timeout |-> t]

Log(c, ev) == trace' = [trace EXCEPT ![c] = Append(@, ev)]

\* Variant of RaiseForStatus: 4xx statuses are let through.
RaiseForStatusOnly5xx(status) == status >= 500 /\ status < 600
\* Response.raise_for_status(): raises HTTPError for 4xx and 5xx, nothing else.
RaiseForStatus(status) == status >= 400 /\ status < 600

\* ------------------------------------------------------------------- Init
\* After InteroperabilityClient.__init__: one fresh Session, nothing running.
ClientInit ==
    /\ shutdown = FALSE
    /\ timeout \in Timeouts
    /\ session = 0
    /\ created = 1
    /\ closed = {}
    /\ pc = [c \in Callers |-> "idle"]
    /\ op = [c \in Callers |-> "none"]
    /\ req = [c \in Callers |-> NoReq]
    /\ inflight = [c \in Callers |-> NoSession]
    /\ response = [c \in Callers |-> NoResponse]
    /\ reachable = [c \in Callers |-> FALSE]
    /\ cancelSeen = [c \in Callers |-> FALSE]
    /\ outcome = [c \in Callers |-> NoOutcome]
    /\ trace = [c \in Callers |-> <<>>]

SerIdle ==
    /\ serOp = "none"
    /\ serIn = <<>>
    /\ serOut = <<>>
    /\ serDone = FALSE

Init == ClientInit /\ SerIdle

\* ------------------------------------------------- the end of a call
Finish(c, o) ==
    /\ pc' = [pc EXCEPT ![c] = "done"]
    /\ outcome' = [outcome EXCEPT ![c] = o]

\* ------------------------------------------------------------ the callers
\* A caller starts a resource method (which calls __request), login() or
\* wait_for_server().  The locals of the call start unassigned.
Begin(c) ==
    /\ pc[c] \in {"idle", "done"}
    /\ \E o \in {"request", "login", "wait"} :
         \E r \in (IF o = "request" THEN Requests ELSE {NoReq}) :
            /\ op' = [op EXCEPT ![c] = o]
            /\ req' = [req EXCEPT ![c] = r]
            /\ pc' = [pc EXCEPT ![c] =
                        CASE o = "request" -> "check"
                          [] o = "login" -> "login"
                          [] o = "wait" -> "wcheck"]
    /\ inflight' = [inflight EXCEPT ![c] = NoSession]
    /\ response' = [response EXCEPT ![c] = NoResponse]
    /\ reachable' = [reachable EXCEPT ![c] = FALSE]
    /\ cancelSeen' = [cancelSeen EXCEPT ![c] = FALSE]
    /\ outcome' = [outcome EXCEPT ![c] = NoOutcome]
    /\ trace' = [trace EXCEPT ![c] = <<>>]
    /\ UNCHANGED <<serVars, shutdown, timeout, session, created, closed>>

\* The host sets the shutdown flag; it is never cleared.
Shutdown ==
    /\ ~shutdown
    /\ shutdown' = TRUE
    /\ UNCHANGED <<serVars, timeout, session, created, closed, pc, op, req, inflight,
                   response, reachable, cancelSeen, outcome, trace>>

\* ------------------------------------------------------------- __request
\* Variant: the loop test does not look at is_shutdown().
CheckIgnoresShutdown(c) ==
    /\ pc[c] = "check"
    /\ pc' = [pc EXCEPT ![c] = "send"]
    /\ UNCHANGED <<serVars, shutdown, timeout, session, created, closed, op, req,
                   inflight, response, reachable, cancelSeen, outcome, trace>>

\* client.py 61 and 87: the loop test; when is_shutdown() is True the loop is
\* left and `return response` runs, with response unassigned if nothing was
\* sent yet (UnboundLocalError).
Check(c) ==
    /\ pc[c] = "check"
    /\ IF shutdown
       THEN /\ cancelSeen' = [cancelSeen EXCEPT ![c] = TRUE]
            /\ Finish(c, IF response[c] = NoResponse
                         THEN Raised("UnboundLocalError", NoResponse)
                         ELSE Returned(response[c]))
       ELSE /\ pc' = [pc EXCEPT ![c] = "send"]
            /\ UNCHANGED <<cancelSeen, outcome>>
    /\ UNCHANGED <<serVars, shutdown, timeout, session, created, closed, op, req,
                   inflight, response, reachable, trace>>

\* client.py 63-67: the request leaves on the current Session.
Send(c) ==
    /\ pc[c] = "send"
    /\ Log(c, Ev("send", session, req[c], NoResponse, "", timeout))
    /\ inflight' = [inflight EXCEPT ![c] = session]
    /\ pc' = [pc EXCEPT ![c] = "await"]
    /\ UNCHANGED <<serVars, shutdown, timeout, session, created, closed, op, req,
                   response, reachable, cancelSeen, outcome>>

\* Variant: a transport error sends the call back to the loop test.
ReceiveRetryOnError(c) ==
    /\ pc[c] = "await"
    /\ \E a \in Answers :
         /\ (a.status = FORBIDDEN => created < MaxSessions)
         /\ Log(c, Ev("resp", inflight[c], req[c], a.status, a.error, timeout))
         /\ IF a.error # ""
            THEN /\ pc' = [pc EXCEPT ![c] = "check"]
                 /\ UNCHANGED <<response, outcome>>
            ELSE /\ response' = [response EXCEPT ![c] = a.status]
                 /\ IF a.status = FORBIDDEN
                    THEN /\ pc' = [pc EXCEPT ![c] = "close"]
                         /\ UNCHANGED outcome
                    ELSE IF RaiseForStatus(a.status)
                    THEN Finish(c, Raised("HTTPError", a.status))
                    ELSE Finish(c, Returned(a.status))
    /\ UNCHANGED <<serVars, shutdown, timeout, session, created, closed, op, req,
                   inflight, reachable, cancelSeen>>

\* client.py 63-87: the answer arrives.  A transport error propagates out of
\* session.request; FORBIDDEN goes on to reauthenticate; raise_for_status
\* raises HTTPError; anything else breaks out of the loop and is returned.
Receive(c) ==
    /\ pc[c] = "await"
    /\ \E a \in Answers :
         /\ (a.status = FORBIDDEN => created < MaxSessions)
         /\ Log(c, Ev("resp", inflight[c], req[c], a.status, a.error, timeout))
         /\ IF a.error # ""
            THEN /\ Finish(c, Raised(a.error, NoResponse))
                 /\ UNCHANGED response
            ELSE /\ response' = [response EXCEPT ![c] = a.status]
                 /\ IF a.status = FORBIDDEN
                    THEN /\ pc' = [pc EXCEPT ![c] = "close"]
                         /\ UNCHANGED outcome
                    ELSE IF RaiseForStatus(a.status)
                    THEN Finish(c, Raised("HTTPError", a.status))
                    ELSE Finish(c, Returned(a.status))
    /\ UNCHANGED <<serVars, shutdown, timeout, session, created, closed, op, req,
                   inflight, reachable, cancelSeen>>

\* client.py 74: self.session.close()
CloseSession(c) ==
    /\ pc[c] = "close"
    /\ closed' = closed \cup {session}
    /\ Log(c, Ev("close", session, NoReq, NoResponse, "", timeout))
    /\ pc' = [pc EXCEPT ![c] = "new"]
    /\ UNCHANGED <<serVars, shutdown, timeout, session, created, op, req, inflight,
                   response, reachable, cancelSeen, outcome>>

\* Variant: the loop continues without the login.
NewSessionNoLogin(c) ==
    /\ pc[c] = "new"
    /\ session' = created
    /\ created' = created + 1
    /\ Log(c, Ev("new", created, NoReq, NoResponse, "", timeout))
    /\ pc' = [pc EXCEPT ![c] = "check"]
    /\ UNCHANGED <<serVars, shutdown, timeout, closed, op, req, inflight, response,
                   reachable, cancelSeen, outcome>>

\* Variant: the fresh Session is created but not installed.
NewSessionKeepsOld(c) ==
    /\ pc[c] = "new"
    /\ created' = created + 1
    /\ Log(c, Ev("new", created, NoReq, NoResponse, "", timeout))
    /\ pc' = [pc EXCEPT ![c] = "login"]
    /\ UNCHANGED <<serVars, shutdown, timeout, session, closed, op, req, inflight,
                   response, reachable, cancelSeen, outcome>>

\* client.py 75: self.session = requests.Session()
NewSession(c) ==
    /\ pc[c] = "new"
    /\ session' = created
    /\ created' = created + 1
    /\ Log(c, Ev("new", created, NoReq, NoResponse, "", timeout))
    /\ pc' = [pc EXCEPT ![c] = "login"]
    /\ UNCHANGED <<serVars, shutdown, timeout, closed, op, req, inflight, response,
                   reachable, cancelSeen, outcome>>

\* ----------------------------------------------------------------- login
\* Variant: the reauthentication posts on the Session of the failed request.
LoginSendOnOldSession(c) ==
    /\ pc[c] = "login"
    /\ Log(c, Ev("login", IF op[c] = "request" THEN inflight[c] ELSE session,
                 NoReq, NoResponse, "", timeout))
    /\ inflight' = [inflight EXCEPT ![c] = session]
    /\ pc' = [pc EXCEPT ![c] = "loginawait"]
    /\ UNCHANGED <<serVars, shutdown, timeout, session, created, closed, op, req,
                   response, reachable, cancelSeen, outcome>>

\* client.py 176-180: the credentials are POSTed on the current Session.
LoginSend(c) ==
    /\ pc[c] = "login"
    /\ Log(c, Ev("login", session, NoReq, NoResponse, "", timeout))
    /\ inflight' = [inflight EXCEPT ![c] = session]
    /\ pc' = [pc EXCEPT ![c] = "loginawait"]
    /\ UNCHANGED <<serVars, shutdown, timeout, session, created, closed, op, req,
                   response, reachable, cancelSeen, outcome>>

\* client.py 176-181 and 78-79: a transport error or raise_for_status's
\* HTTPError leaves login() and, with it, __request; otherwise login()
\* returns None and __request continues with the loop test.
LoginReceive(c) ==
    /\ pc[c] = "loginawait"
    /\ \E a \in Answers :
         /\ Log(c, Ev("loginresp", inflight[c], NoReq, a.status, a.error, timeout))
         /\ IF a.error # ""
            THEN Finish(c, Raised(a.error, NoResponse))
            ELSE IF RaiseForStatus(a.status)
            THEN Finish(c, Raised("HTTPError", a.status))
            ELSE IF op[c] = "request"
            THEN /\ pc' = [pc EXCEPT ![c] = "check"]
                 /\ UNCHANGED outcome
            ELSE Finish(c, Returned(NoResponse))
    /\ UNCHANGED <<serVars, shutdown, timeout, session, created, closed, op, req,
                   inflight, response, reachable, cancelSeen>>

\* ------------------------------------------------------- wait_for_server
FailedProbes(c) ==
    Cardinality({ i \in 1..Len(trace[c]) :
                    /\ trace[c][i].e = "proberesp"
                    /\ (trace[c][i].error # "" \/ RaiseForStatus(trace[c][i].status)) })

\* client.py 160: `while not reachable and not rospy.is_shutdown()`.
WaitCheck(c) ==
    /\ pc[c] = "wcheck"
    /\ IF reachable[c]
       THEN /\ Finish(c, Returned(NoResponse))
            /\ UNCHANGED cancelSeen
       ELSE IF shutdown
       THEN /\ cancelSeen' = [cancelSeen EXCEPT ![c] = TRUE]
            /\ Finish(c, Returned(NoResponse))
       ELSE /\ pc' = [pc EXCEPT ![c] = "probe"]
            /\ UNCHANGED <<cancelSeen, outcome>>
    /\ UNCHANGED <<serVars, shutdown, timeout, session, created, closed, op, req,
                   inflight, response, reachable, trace>>

\* Variant: the probe is sent without the timeout argument.
ProbeSendNoTimeout(c) ==
    /\ pc[c] = "probe"
    /\ Log(c, Ev("probe", NoSession, NoReq, NoResponse, "", NoResponse))
    /\ pc' = [pc EXCEPT ![c] = "probeawait"]
    /\ UNCHANGED <<serVars, shutdown, timeout, session, created, closed, op, req,
                   inflight, response, reachable, cancelSeen, outcome>>

\* client.py 162: requests.get(self.url, timeout=self.timeout), no Session.
ProbeSend(c) ==
    /\ pc[c] = "probe"
    /\ Log(c, Ev("probe", NoSession, NoReq, NoResponse, "", timeout))
    /\ pc' = [pc EXCEPT ![c] = "probeawait"]
    /\ UNCHANGED <<serVars, shutdown, timeout, session, created, closed, op, req,
                   inflight, response, reachable, cancelSeen, outcome>>

\* Variant: only HTTPError is caught, a transport error leaves the call.
ProbeReceiveRaises(c) ==
    /\ pc[c] = "probeawait"
    /\ \E a \in Answers :
         /\ (a.error # "" \/ RaiseForStatus(a.status)) => FailedProbes(c) < MaxProbeFails
         /\ Log(c, Ev("proberesp", NoSession, NoReq, a.status, a.error, timeout))
         /\ IF a.error # ""
            THEN /\ Finish(c, Raised(a.error, NoResponse))
                 /\ UNCHANGED reachable
            ELSE IF RaiseForStatus(a.status)
            THEN /\ pc' = [pc EXCEPT ![c] = "wcheck"]
                 /\ UNCHANGED <<reachable, outcome>>
            ELSE /\ reachable' = [reachable EXCEPT ![c] = ~RaiseForStatus(a.status)]
                 /\ pc' = [pc EXCEPT ![c] = "wcheck"]
                 /\ UNCHANGED outcome
    /\ UNCHANGED <<serVars, shutdown, timeout, session, created, closed, op, req,
                   inflight, response, cancelSeen>>

\* client.py 162-166: every exception (transport error, HTTPError) is caught
\* and the loop continues; otherwise reachable = response.ok.
ProbeReceive(c) ==
    /\ pc[c] = "probeawait"
    /\ \E a \in Answers :
         /\ (a.error # "" \/ RaiseForStatus(a.status)) => FailedProbes(c) < MaxProbeFails
         /\ Log(c, Ev("proberesp", NoSession, NoReq, a.status, a.error, timeout))
         /\ IF a.error # "" \/ RaiseForStatus(a.status)
            THEN /\ pc' = [pc EXCEPT ![c] = "wcheck"]
                 /\ UNCHANGED reachable
            ELSE /\ reachable' = [reachable EXCEPT ![c] = ~RaiseForStatus(a.status)]
                 /\ pc' = [pc EXCEPT ![c] = "wcheck"]
    /\ UNCHANGED <<serVars, shutdown, timeout, session, created, closed, op, req,
                   inflight, response, cancelSeen, outcome>>

\* ------------------------------------------------------------------ Next
ClientNext ==
    \/ Shutdown
    \/ \E c \in SeqCallers : Begin(c)
    \/ \E c \in SeqCallers : Check(c)
    \/ \E c \in SeqCallers : Send(c)
    \/ \E c \in SeqCallers : Receive(c)
    \/ \E c \in SeqCallers : CloseSession(c)
    \/ \E c \in SeqCallers : NewSession(c)
    \/ \E c \in SeqCallers : LoginSend(c)
    \/ \E c \in SeqCallers : LoginReceive(c)
    \/ \E c \in SeqCallers : WaitCheck(c)
    \/ \E c \in SeqCallers : ProbeSend(c)
    \/ \E c \in SeqCallers : ProbeReceive(c)

Next == ClientNext

Spec == Init /\ [][Next]_vars

\* Two threads call execute on the same client, each once, the first with a
\* GET and the second with a POST; client.py takes no lock, so their steps
\* interleave freely.
Execute(c) ==
    /\ pc[c] = "idle"
    /\ Begin(c)
    /\ op'[c] = "request"
    /\ req'[c].method = (IF c = 1 THEN "GET" ELSE "POST")

ConcNext ==
    \/ \E c \in Callers : Execute(c)
    \/ \E c \in Callers : Check(c)
    \/ \E c \in Callers : Send(c)
    \/ \E c \in Callers : Receive(c)
    \/ \E c \in Callers : CloseSession(c)
    \/ \E c \in Callers : NewSession(c)
    \/ \E c \in Callers : LoginSend(c)
    \/ \E c \in Callers : LoginReceive(c)

ConcSpec == Init /\ [][ConcNext]_vars

\* The steps of a call that is under way: the calling thread keeps running
\* and every network call it makes returns (with an answer or, at the latest
\* after the timeout, with an error).
CallStep(c) ==
    \/ Check(c) \/ Send(c) \/ Receive(c) \/ CloseSession(c) \/ NewSession(c)
    \/ LoginSend(c) \/ LoginReceive(c)
    \/ WaitCheck(c) \/ ProbeSend(c) \/ ProbeReceive(c)

FairSpec == Init /\ [][Next]_vars /\ \A c \in SeqCallers : WF_vars(CallStep(c))

\* =================================================== the client's claims
\* Counting the entries of a call's trace.
Count(c, P(_)) == Cardinality({ i \in 1..Len(trace[c]) : P(trace[c][i]) })
IsSend(ev) == ev.e = "send"
IsLogin(ev) == ev.e = "login"
IsForbidden(ev) == ev.e = "resp" /\ ev.error = "" /\ ev.status = FORBIDDEN
NSends(c) == Count(c, IsSend)
NLogins(c) == Count(c, IsLogin)
NForbidden(c) == Count(c, IsForbidden)
Last(c) == trace[c][Len(trace[c])]
\* An answer that lets login() return: a status raise_for_status accepts.
LoginAccepted(ev) == ev.error = "" /\ ev.status < 400

\* C1 as stated: every FORBIDDEN response of a call that did not observe
\* cancellation is followed by a re-send of the same request.
C1_EveryForbiddenResent ==
    \A c \in Callers :
        (op[c] = "request" /\ pc[c] = "done" /\ ~cancelSeen[c]) =>
            \A i \in 1..Len(trace[c]) :
                IsForbidden(trace[c][i]) =>
                    \E j \in (i + 1)..Len(trace[c]) :
                        trace[c][j].e = "send" /\ trace[c][j].req = req[c]

\* C1 (amended): every FORBIDDEN response is followed, in this order, by
\* closing the Session it came on, installing a Session never used before,
\* one login on that Session and, if login returned normally and the loop
\* test does not see the shutdown flag, a re-send of the same request on it;
\* if login raised, the call ends with that error and nothing is re-sent.
\* The loop goes on whatever the number of retries so far.
C1_ReauthOrder ==
    \A c \in Callers :
        op[c] = "request" =>
            \A i \in 1..Len(trace[c]) :
                IsForbidden(trace[c][i]) =>
                    LET t == trace[c]
                        n == Len(t)
                    IN  /\ i > 1 /\ t[i - 1].e = "send"
                        /\ IF n = i THEN pc[c] = "close"
                           ELSE t[i + 1].e = "close" /\ t[i + 1].session = t[i - 1].session
                        /\ n = i + 1 => pc[c] = "new"
                        /\ n >= i + 2 =>
                             /\ t[i + 2].e = "new"
                             /\ \A k \in 1..(i + 1) : t[k].session # t[i + 2].session
                        /\ n = i + 2 => pc[c] = "login"
                        /\ n >= i + 3 =>
                             t[i + 3].e = "login" /\ t[i + 3].session = t[i + 2].session
                        /\ n = i + 3 => pc[c] = "loginawait"
                        /\ n >= i + 4 =>
                             /\ t[i + 4].e = "loginresp"
                             /\ t[i + 4].session = t[i + 2].session
                        /\ n = i + 4 =>
                             IF LoginAccepted(t[i + 4])
                             THEN \/ pc[c] \in {"check", "send"}
                                  \/ pc[c] = "done" /\ cancelSeen[c]
                             ELSE /\ pc[c] = "done"
                                  /\ outcome[c].kind = "raised"
                                  /\ outcome[c].error =
                                        (IF t[i + 4].error # "" THEN t[i + 4].error
                                         ELSE "HTTPError")
                        /\ n >= i + 5 =>
                             /\ LoginAccepted(t[i + 4])
                             /\ t[i + 5].e = "send"
                             /\ t[i + 5].session = t[i + 2].session
                             /\ t[i + 5].req = t[i - 1].req
                             /\ t[i + 5].req = req[c]

\* C1 witness: the request is on its third send, after two FORBIDDEN answers
\* and two logins.
C1_Witness ==
    \E c \in Callers :
        /\ op[c] = "request"
        /\ pc[c] = "await"
        /\ NForbidden(c) = 2
        /\ NLogins(c) = 2
        /\ NSends(c) = 3

\* C2 as stated: a call of execute that observed the cancellation signal
\* ends by returning no result: no Response is handed back and no error is
\* raised.
C2_CancelReturnsNothing ==
    \A c \in Callers :
        (op[c] = "request" /\ pc[c] = "done" /\ cancelSeen[c]) =>
            outcome[c] = Returned(NoResponse)

\* C3: a call of execute that returns a Response made as many login() calls
\* as it received FORBIDDEN responses, and one more send than that.
C3_LoginPerForbidden ==
    \A c \in Callers :
        (op[c] = "request" /\ pc[c] = "done" /\ outcome[c].kind = "returned"
            /\ ~cancelSeen[c]) =>
            /\ NLogins(c) = NForbidden(c)
            /\ NSends(c) = NForbidden(c) + 1
            /\ \A i \in 1..Len(trace[c]) :
                 trace[c][i].e = "loginresp" => LoginAccepted(trace[c][i])

\* C3 witness: FORBIDDEN twice, then 200: two logins.
C3_Witness ==
    \E c \in Callers :
        /\ op[c] = "request"
        /\ pc[c] = "done"
        /\ outcome[c] = Returned(200)
        /\ NForbidden(c) = 2
        /\ NLogins(c) = 2

\* C4 as stated: the caller of a resource method never receives an HTTPError
\* that carries FORBIDDEN.
C4_ForbiddenNeverSurfaced ==
    \A c \in Callers :
        op[c] = "request" =>
            ~(outcome[c].kind = "raised" /\ outcome[c].error = "HTTPError"
                /\ outcome[c].code = FORBIDDEN)

\* The statuses of an answer, by class.
Is2xx(st) == st >= 200 /\ st < 300
Is4xx5xx(st) == st >= 400 /\ st < 600

\* C5 as stated: every answer whose status is not 2xx (and, for execute, not
\* FORBIDDEN) ends the call with an HTTPError carrying that status.
C5_EveryNon2xxRaises ==
    \A c \in Callers :
        \A i \in 1..Len(trace[c]) :
            LET ev == trace[c][i]
            IN  (/\ ev.e \in {"resp", "loginresp"}
                 /\ ev.error = ""
                 /\ ~Is2xx(ev.status)
                 /\ (ev.e = "resp" => ev.status # FORBIDDEN)) =>
                    /\ pc[c] = "done"
                    /\ outcome[c] = Raised("HTTPError", ev.status)

\* C5 (amended): every 4xx status other than FORBIDDEN and every 5xx status
\* ends execute with an HTTPError carrying that status, and every 4xx or 5xx
\* status (FORBIDDEN included) does so for login(); a 1xx, 2xx or 3xx status
\* is returned by execute as its result, and lets login() return normally.
C5_ErrorStatusRaises ==
    \A c \in Callers :
        \A i \in 1..Len(trace[c]) :
            LET ev == trace[c][i]
            IN  /\ (ev.e \in {"resp", "loginresp"} /\ ev.error = ""
                      /\ Is4xx5xx(ev.status)
                      /\ (ev.e = "resp" => ev.status # FORBIDDEN)) =>
                        /\ i = Len(trace[c])
                        /\ pc[c] = "done"
                        /\ outcome[c] = Raised("HTTPError", ev.status)
                /\ (ev.e = "resp" /\ ev.error = "" /\ ev.status < 400) =>
                        /\ i = Len(trace[c])
                        /\ pc[c] = "done"
                        /\ outcome[c] = Returned(ev.status)
                /\ (ev.e = "loginresp" /\ ev.error = "" /\ ev.status < 400
                      /\ i = Len(trace[c])) =>
                        /\ outcome[c].kind # "raised"
                        /\ op[c] = "login" =>
                             pc[c] = "done" /\ outcome[c] = Returned(NoResponse)

\* C5 witness: the login of a reauthentication is answered 500 and execute
\* ends with HTTPError 500.
C5_Witness ==
    \E c \in Callers :
        /\ op[c] = "request"
        /\ pc[c] = "done"
        /\ outcome[c] = Raised("HTTPError", 500)
        /\ Last(c).e = "loginresp"
        /\ NForbidden(c) = 1

\* C6: a transport error on a request of execute or on a login is the last
\* thing the call does: it ends at once with that error, nothing is sent and
\* no login is made after it; a request is re-sent only after FORBIDDEN.
C6_TransportErrorEnds ==
    \A c \in Callers :
        op[c] \in {"request", "login"} =>
            /\ \A i \in 1..Len(trace[c]) :
                 trace[c][i].error # "" =>
                    /\ i = Len(trace[c])
                    /\ pc[c] = "done"
                    /\ outcome[c] = Raised(trace[c][i].error, NoResponse)
            /\ \A j \in 2..Len(trace[c]) :
                 trace[c][j].e = "send" =>
                    \E i \in 1..(j - 1) :
                        /\ IsForbidden(trace[c][i])
                        /\ \A k \in (i + 1)..(j - 1) : trace[c][k].e # "send"
            /\ NSends(c) <= NForbidden(c) + 1

\* C6 witness: the login of a reauthentication times out and execute ends
\* with Timeout.
C6_Witness ==
    \E c \in Callers :
        /\ op[c] = "request"
        /\ pc[c] = "done"
        /\ outcome[c] = Raised("Timeout", NoResponse)
        /\ Last(c).e = "loginresp"
        /\ NForbidden(c) = 1

\* A probe answer that wait_for_server takes as "not reachable".
ProbeFailed(ev) == ev.e = "proberesp" /\ (ev.error # "" \/ ev.status >= 400)

\* C7: wait_for_server never raises; a failed probe sends the call back to
\* its loop test, where another probe follows unless the shutdown flag is
\* seen; the call returns only after a successful probe or after seeing the
\* shutdown flag.
C7_WaitNeverRaises ==
    \A c \in Callers :
        op[c] = "wait" =>
            /\ outcome[c].kind # "raised"
            /\ pc[c] = "done" =>
                 /\ outcome[c] = Returned(NoResponse)
                 /\ \/ cancelSeen[c]
                    \/ /\ Len(trace[c]) > 0
                       /\ Last(c).e = "proberesp"
                       /\ ~ProbeFailed(Last(c))
            /\ \A i \in 1..Len(trace[c]) :
                 ProbeFailed(trace[c][i]) =>
                    IF i < Len(trace[c])
                    THEN trace[c][i + 1].e = "probe"
                    ELSE \/ pc[c] \in {"wcheck", "probe"}
                         \/ pc[c] = "done" /\ cancelSeen[c]

\* C7 witness: a probe failed on the transport, another was answered 500,
\* a third succeeded and the call returned.
C7_Witness ==
    \E c \in Callers :
        /\ op[c] = "wait"
        /\ pc[c] = "done"
        /\ ~cancelSeen[c]
        /\ \E i \in 1..Len(trace[c]) : trace[c][i].error = "ConnectionError"
        /\ \E i \in 1..Len(trace[c]) :
             trace[c][i].e = "proberesp" /\ trace[c][i].status = 500

\* ======================================================== the serializers
\* Results of a conversion: a value, or the exception it raised.
NoValue == <<>>
Ok(v) == [ok |-> TRUE, error |-> "", value |-> v]
Fail(e) == [ok |-> FALSE, error |-> e, value |-> NoValue]

\* serializers.py 42: feet_to_meters, float(ft) * 0.3048.  Lengths in metres
\* are held as integer multiples of 0.0001 m, so the product is exact.
FeetToMeters(ft) == ft * 3048

\* utm.from_latlon (an external projection): a fixed function of latitude
\* and longitude, here the equatorial approximation in metres per degree.
UtmFromLatLon(lat, lon) ==
    [easting |-> 500000 + 111320 * lon, northing |-> 110574 * lat]

\* std_msgs/Header as the deserializers fill it.
Header(frame, stamp) == [stamp |-> stamp, frame_id |-> frame]

\* geometry_msgs/Point
Point(x, y, z) == [x |-> x, y |-> y, z |-> z]

\* Frames, clock readings and lifetimes the callers pass in.
Frames == {"map", "utm"}
Stamps == {100}
Lifetimes == {1, 5}

\* All sequences over S of length at most n.
SeqsUpTo(S, n) == UNION { [1..k -> S] : k \in 0..n }

\* A dictionary with no keys.
EmptyDict == [k \in {} |-> NoValue]

\* ------------------------------------------------- MissionDeserializer
\* serializers.py 104-111: boundary points, x and y only.
RECURSIVE BoundaryPoints(_)
BoundaryPoints(pts) ==
    IF pts = <<>> THEN <<>>
    ELSE LET u == UtmFromLatLon(Head(pts).latitude, Head(pts).longitude)
         IN  <<Point(u.easting, u.northing, 0)>> \o BoundaryPoints(Tail(pts))

\* serializers.py 145-155 and 178-189: points with a converted altitude.
RECURSIVE AltitudePoints(_)
AltitudePoints(pts) ==
    IF pts = <<>> THEN <<>>
    ELSE LET u == UtmFromLatLon(Head(pts).latitude, Head(pts).longitude)
         IN  <<Point(u.easting, u.northing, FeetToMeters(Head(pts).altitude_msl))>>
                \o AltitudePoints(Tail(pts))

\* serializers.py 76-115: __get_flyzone
RECURSIVE GetFlyzone(_, _, _)
GetFlyzone(data, frame, stamp) ==
    IF data = <<>> THEN <<>>
    ELSE <<[zone |-> [header |-> Header(frame, stamp),
                      polygon |-> BoundaryPoints(Head(data).boundary_pts)],
            max_alt |-> FeetToMeters(Head(data).altitude_msl_max),
            min_alt |-> FeetToMeters(Head(data).altitude_msl_min)]>>
            \o GetFlyzone(Tail(data), frame, stamp)

\* serializers.py 117-157: __get_waypoints
GetWaypoints(data, frame, stamp) ==
    [header |-> Header(frame, stamp), ns |-> "waypoints", type |-> "POINTS",
     lifetime |-> 0, points |-> AltitudePoints(data)]

\* serializers.py 159-191: __get_search_grid
GetSearchGrid(data, frame, stamp) ==
    [header |-> Header(frame, stamp), polygon |-> AltitudePoints(data)]

\* serializers.py 193-276: __get_airdrop_loc, __get_offaxis_targ and
\* __emergent_object, which differ in name only.
GetLocatedPoint(data, frame, stamp) ==
    LET u == UtmFromLatLon(data.latitude, data.longitude)
    IN  [header |-> Header(frame, stamp), point |-> Point(u.easting, u.northing, 0)]

\* serializers.py 278-304: MissionDeserializer.from_dict
MissionFromDict(data, frame, stamp) ==
    << GetFlyzone(data.fly_zones, frame, stamp),
       GetSearchGrid(data.search_grid_points, frame, stamp),
       GetWaypoints(data.mission_waypoints, frame, stamp),
       GetLocatedPoint(data.air_drop_pos, frame, stamp),
       GetLocatedPoint(data.off_axis_target_pos, frame, stamp),
       GetLocatedPoint(data.emergent_last_known_pos, frame, stamp) >>

\* A mission record as /api/missions returns it; its geometry depends on id.
Mission(id, active) ==
    [id |-> id, active |-> active,
     fly_zones |-> <<[altitude_msl_max |-> 100 * id, altitude_msl_min |-> 10,
                      boundary_pts |-> <<[latitude |-> id, longitude |-> 0],
                                         [latitude |-> id, longitude |-> 1]>>]>>,
     search_grid_points |-> <<[latitude |-> id, longitude |-> 2, altitude_msl |-> 50]>>,
     mission_waypoints |-> <<[latitude |-> 0, longitude |-> id, altitude_msl |-> 200]>>,
     air_drop_pos |-> [latitude |-> id, longitude |-> id],
     off_axis_target_pos |-> [latitude |-> 0 - id, longitude |-> id],
     emergent_last_known_pos |-> [latitude |-> id, longitude |-> 0 - id]]

MissionRecords == { Mission(id, a) : id \in 1..MaxList, a \in BOOLEAN }
MissionLists == SeqsUpTo(MissionRecords, MaxList)

\* Variant: the scan runs from the end of the list.
RECURSIVE ActiveScanLast(_, _, _)
ActiveScanLast(missions, frame, stamp) ==
    IF missions = <<>> THEN Fail("LookupError")
    ELSE IF missions[Len(missions)].active
    THEN Ok(MissionFromDict(missions[Len(missions)], frame, stamp))
    ELSE ActiveScanLast(SubSeq(missions, 1, Len(missions) - 1), frame, stamp)

\* client.py 290-294: get_active_mission's scan of response.json().
RECURSIVE ActiveScan(_, _, _)
ActiveScan(missions, frame, stamp) ==
    IF missions = <<>> THEN Fail("LookupError")
    ELSE IF Head(missions).active
    THEN Ok(MissionFromDict(Head(missions), frame, stamp))
    ELSE ActiveScan(Tail(missions), frame, stamp)

\* ------------------------------------------------ ObstaclesDeserializer
\* serializers.py 312-316: OBSTACLE_COLOR, in 255ths.
OBSTACLE_COLOR == [r |-> 218, g |-> 41, b |-> 28, a |-> 255]

\* serializers.py 341-358: one moving obstacle, a sphere.
MovingMarker(obj, header, lifetime) ==
    LET radius == FeetToMeters(obj.sphere_radius)
        u == UtmFromLatLon(obj.latitude, obj.longitude)
    IN  [header |-> header, type |-> "SPHERE", color |-> OBSTACLE_COLOR,
         ns |-> "moving_obstacles", lifetime |-> lifetime,
         scale |-> Point(radius, radius, radius),
         position |-> Point(u.easting, u.northing, FeetToMeters(obj.altitude_msl))]

\* serializers.py 366-385: one stationary obstacle, a cylinder centred at
\* half its height.  height is a float, so height / 2 is the exact half; a
\* whole number of feet is an even number of 0.0001 m, so \div is exact too.
StationaryMarker(obj, header, lifetime) ==
    LET radius == FeetToMeters(obj.cylinder_radius)
        height == FeetToMeters(obj.cylinder_height)
        u == UtmFromLatLon(obj.latitude, obj.longitude)
    IN  [header |-> header, type |-> "CYLINDER", color |-> OBSTACLE_COLOR,
         ns |-> "stationary_obstacles", lifetime |-> lifetime,
         scale |-> Point(radius, radius, height),
         position |-> Point(u.easting, u.northing, height \div 2)]

\* serializers.py 340-360: the loop over data["moving_obstacles"].
RECURSIVE MovingMarkers(_, _, _)
MovingMarkers(objs, header, lifetime) ==
    IF objs = <<>> THEN <<>>
    ELSE <<MovingMarker(Head(objs), header, lifetime)>>
            \o MovingMarkers(Tail(objs), header, lifetime)

\* serializers.py 365-387: the loop over data["stationary_obstacles"].
RECURSIVE StationaryMarkers(_, _, _)
StationaryMarkers(objs, header, lifetime) ==
    IF objs = <<>> THEN <<>>
    ELSE <<StationaryMarker(Head(objs), header, lifetime)>>
            \o StationaryMarkers(Tail(objs), header, lifetime)

\* Variant: both keys are indexed without the `in` test.
ObstaclesFromDictStrict(data, frame, lifetime, stamp) ==
    IF ~("moving_obstacles" \in DOMAIN data /\ "stationary_obstacles" \in DOMAIN data)
    THEN Fail("KeyError")
    ELSE Ok(<< MovingMarkers(data["moving_obstacles"], Header(frame, stamp), lifetime),
               StationaryMarkers(data["stationary_obstacles"], Header(frame, stamp),
                                 lifetime) >>)

\* serializers.py 318-389: ObstaclesDeserializer.from_dict
ObstaclesFromDict(data, frame, lifetime, stamp) ==
    LET header == Header(frame, stamp)
        moving_obstacles ==
            IF "moving_obstacles" \in DOMAIN data
            THEN MovingMarkers(data["moving_obstacles"], header, lifetime)
            ELSE <<>>
        stationary_obstacles ==
            IF "stationary_obstacles" \in DOMAIN data
            THEN StationaryMarkers(data["stationary_obstacles"], header, lifetime)
            ELSE <<>>
    IN  Ok(<<moving_obstacles, stationary_obstacles>>)

\* The obstacles of a payload of /api/obstacles.
MovingObstacles ==
    { [sphere_radius |-> 10, latitude |-> 0, longitude |-> 0, altitude_msl |-> 100],
      [sphere_radius |-> 3, latitude |-> 1, longitude |-> 2, altitude_msl |-> 7] }
StationaryObstacles ==
    { [cylinder_radius |-> 10, cylinder_height |-> 20, latitude |-> 0, longitude |-> 0],
      [cylinder_radius |-> 5, cylinder_height |-> 7, latitude |-> 2, longitude |-> 1] }

\* A payload: each of the two keys is present (with a list) or missing.
ObstacleData(hasMoving, moving, hasStationary, stationary) ==
    (IF hasMoving THEN "moving_obstacles" :> moving ELSE EmptyDict) @@
    (IF hasStationary THEN "stationary_obstacles" :> stationary ELSE EmptyDict)

ObstacleDicts ==
    { ObstacleData(TRUE, m, TRUE, s) :
        m \in SeqsUpTo(MovingObstacles, MaxList),
        s \in SeqsUpTo(StationaryObstacles, MaxList) } \cup
    { ObstacleData(FALSE, <<>>, TRUE, s) : s \in SeqsUpTo(StationaryObstacles, MaxList) } \cup
    { ObstacleData(TRUE, m, FALSE, <<>>) : m \in SeqsUpTo(MovingObstacles, MaxList) } \cup
    { ObstacleData(FALSE, <<>>, FALSE, <<>>) }

\* ----------------------------------------------------- TargetSerializer
\* Python values: the type, and the number or the string held.  A message of
\* an enumeration type holds its data field's value; dty is that value's type.
PyVal(ty, n, str, dty) == [ty |-> ty, n |-> n, s |-> str, dty |-> dty]
PyNone == PyVal("NoneType", 0, "", "")
PyInt(n) == PyVal("int", n, "", "")
PyFloat(n) == PyVal("float", n, "", "")
PyStr(str) == PyVal("str", 0, str, "")
PyBool(b) == PyVal("bool", IF b THEN 1 ELSE 0, "", "")
\* T(value) for a message type T with the single field data.
Wrap(T, v) == PyVal(T, v.n, v.s, v.ty)

\* serializers.py 420-425: ENUMERATION_TYPES
ENUMERATION_TYPES == {"Color", "Orientation", "Shape", "TargetType"}

\* Target.__slots__ and the type of each slot's default value: one slot of
\* each kind of declared type.
Slots == <<"type", "latitude", "alphanumeric", "autonomous">>
SlotSet == { Slots[i] : i \in 1..Len(Slots) }
SlotType(a) ==
    CASE a = "type" -> "TargetType"
      [] a = "latitude" -> "float"
      [] a = "alphanumeric" -> "str"
      [] a = "autonomous" -> "bool"

\* The value a slot of a fresh message holds.
DefaultOf(T) ==
    CASE T \in ENUMERATION_TYPES -> Wrap(T, PyStr(""))
      [] T = "float" -> PyFloat(0)
      [] T = "str" -> PyStr("")
      [] T = "bool" -> PyBool(FALSE)

\* serializers.py 460: Target()
NewTarget == [a \in SlotSet |-> DefaultOf(SlotType(a))]

\* The strings float() parses, with their values.
NumericStrings == {"7", "38"}
ParseFloat(str) == CASE str = "7" -> 7 [] str = "38" -> 38

\* serializers.py 470: attribute_type(value), Python's constructors.
Cast(T, v) ==
    CASE T \in ENUMERATION_TYPES -> Ok(Wrap(T, v))
      [] T = "float" ->
            IF v.ty \in {"int", "float", "bool"} THEN Ok(PyFloat(v.n))
            ELSE IF v.ty = "str" /\ v.s \in NumericStrings THEN Ok(PyFloat(ParseFloat(v.s)))
            ELSE IF v.ty = "str" THEN Fail("ValueError")
            ELSE Fail("TypeError")
      [] T = "str" ->
            IF v.ty = "str" THEN Ok(v)
            ELSE IF v.ty = "int" THEN Ok(PyStr(ToString(v.n)))
            ELSE IF v.ty = "float" THEN Ok(PyStr(ToString(v.n) \o ".0"))
            ELSE IF v.ty = "bool" THEN Ok(PyStr(IF v.n = 1 THEN "True" ELSE "False"))
            ELSE Ok(PyStr("None"))
      [] T = "bool" ->
            Ok(PyBool(IF v.ty = "str" THEN v.s # "" ELSE v.n # 0))

\* Variant: a null value is converted like any other.
RECURSIVE FromDictLoopNoNullTest(_, _, _)
FromDictLoopNoNullTest(data, slots, msg) ==
    IF slots = <<>> THEN Ok(msg)
    ELSE LET attribute == Head(slots)
         IN  IF attribute \in DOMAIN data
             THEN LET r == Cast(SlotType(attribute), data[attribute])
                  IN  IF r.ok
                      THEN FromDictLoopNoNullTest(data, Tail(slots),
                                        [msg EXCEPT ![attribute] = r.value])
                      ELSE Fail(r.error)
             ELSE FromDictLoopNoNullTest(data, Tail(slots), msg)

\* serializers.py 462-470: the loop over msg.__slots__.
RECURSIVE FromDictLoop(_, _, _)
FromDictLoop(data, slots, msg) ==
    IF slots = <<>> THEN Ok(msg)
    ELSE LET attribute == Head(slots)
         IN  IF attribute \in DOMAIN data /\ data[attribute] # PyNone
             THEN LET r == Cast(SlotType(attribute), data[attribute])
                  IN  IF r.ok
                      THEN FromDictLoop(data, Tail(slots),
                                        [msg EXCEPT ![attribute] = r.value])
                      ELSE Fail(r.error)
             ELSE FromDictLoop(data, Tail(slots), msg)

\* serializers.py 449-472: TargetSerializer.from_dict
TargetFromDict(data) == FromDictLoop(data, Slots, NewTarget)

\* The wire dictionaries: every key is missing, null, or holds a value.
Absent == PyVal("absent", 0, "", "")
WireValues(k) ==
    CASE k = "type" -> {PyStr("standard"), PyStr("emergent")}
      [] k = "latitude" -> {PyFloat(38), PyInt(3), PyStr("7"), PyStr("abc")}
      [] k = "alphanumeric" -> {PyStr("A"), PyInt(4)}
      [] k = "autonomous" -> {PyBool(TRUE), PyBool(FALSE), PyStr("false")}
      [] k = "id" -> {PyInt(1)}
Options(k) == {Absent, PyNone} \cup WireValues(k)
Entry(k, v) == IF v = Absent THEN EmptyDict ELSE k :> v
TargetDicts ==
    { Entry("type", t) @@ Entry("latitude", l) @@ Entry("alphanumeric", a)
        @@ Entry("autonomous", u) @@ Entry("id", i) :
        t \in Options("type"), l \in Options("latitude"),
        a \in Options("alphanumeric"), u \in Options("autonomous"),
        i \in Options("id") }

\* serializers.py 440-445: the loop of from_msg over msg.__slots__.
\* Variant: a field of an enumeration type is copied like any other.
RECURSIVE FromMsgLoopNoUnwrap(_, _, _)
FromMsgLoopNoUnwrap(msg, slots, data) ==
    IF slots = <<>> THEN data
    ELSE FromMsgLoopNoUnwrap(msg, Tail(slots), data @@ (Head(slots) :> msg[Head(slots)]))

\* serializers.py 440-445: the loop of from_msg over msg.__slots__; a value
\* whose type is in ENUMERATION_TYPES is replaced by its data field.
RECURSIVE FromMsgLoop(_, _, _)
FromMsgLoop(msg, slots, data) ==
    IF slots = <<>> THEN data
    ELSE LET attribute == Head(slots)
             value == IF msg[attribute].ty \in ENUMERATION_TYPES
                      THEN PyVal(msg[attribute].dty, msg[attribute].n,
                                 msg[attribute].s, "")
                      ELSE msg[attribute]
         IN  FromMsgLoop(msg, Tail(slots), data @@ (attribute :> value))

\* serializers.py 427-447: TargetSerializer.from_msg
TargetFromMsg(msg) == FromMsgLoop(msg, Slots, EmptyDict)

\* The values a field of a Target message may hold: values of its declared
\* type, or None where the field was never filled in.
FieldValues(a) ==
    CASE a = "type" -> { Wrap("TargetType", PyStr("standard")),
                         Wrap("TargetType", PyStr("")),
                         Wrap("TargetType", PyNone) }
      [] a = "latitude" -> { PyFloat(0), PyFloat(38), PyNone }
      [] a = "alphanumeric" -> { PyStr(""), PyStr("A"), PyNone }
      [] a = "autonomous" -> { PyBool(TRUE), PyBool(FALSE), PyNone }
Targets == { m \in [SlotSet -> UNION { FieldValues(a) : a \in SlotSet }] :
                \A a \in SlotSet : m[a] \in FieldValues(a) }

\* ---------------------------------------------------- iso8601_to_rostime
\* An ISO 8601 string as dateutil.parser.parse reads it: the wall-clock
\* reading in whole seconds since 1970-01-01T00:00:00 and microseconds, and
\* the UTC offset in seconds when the string carries one.
IsoTimes ==
    { [sec |-> sc, us |-> u, hasOffset |-> h, offset |-> o] :
        sc \in {0 - 2, 0 - 1, 0, 1, 1577836800},
        u \in {0, 500000, 999999},
        h \in BOOLEAN,
        o \in {0 - 3600, 0, 3600} } \ 
    { x \in [sec : {0 - 2, 0 - 1, 0, 1, 1577836800}, us : {0, 500000, 999999},
             hasOffset : {FALSE}, offset : {0 - 3600, 3600}] : TRUE }

\* serializers.py 55-62: t - epoch as a timedelta, which Python keeps as a
\* whole number of seconds (days and seconds, rounded down) and
\* 0 <= microseconds < 10^6.  A string without offset, or with offset zero,
\* is taken as UTC.
TimeDelta(iso) ==
    [seconds |-> iso.sec - (IF iso.hasOffset THEN iso.offset ELSE 0),
     microseconds |-> iso.us]

\* serializers.py 66: int(dt.total_seconds()), which truncates toward zero.
IntTotalSeconds(dt) ==
    IF dt.seconds < 0 /\ dt.microseconds > 0 THEN dt.seconds + 1 ELSE dt.seconds

\* serializers.py 45-69: iso8601_to_rostime
Iso8601ToRostime(iso) ==
    LET dt == TimeDelta(iso)
    IN  [secs |-> IntTotalSeconds(dt), nsecs |-> dt.microseconds * 1000]

\* ------------------------------------------------ SerSpec: the conversions
SerInit ==
    /\ ClientInit
    /\ serDone = FALSE
    /\ serOut = NoValue
    /\ \/ /\ serOp = "mission"
          /\ serIn \in { [list |-> l, frame |-> f, stamp |-> t] :
                            l \in MissionLists, f \in Frames, t \in Stamps }
       \/ /\ serOp = "obstacles"
          /\ serIn \in { [data |-> d, frame |-> f, lifetime |-> l, stamp |-> t] :
                            d \in ObstacleDicts, f \in Frames, l \in Lifetimes,
                            t \in Stamps }
       \/ /\ serOp = "target"
          /\ serIn \in { [data |-> d] : d \in TargetDicts }
       \/ /\ serOp = "roundtrip"
          /\ serIn \in { [msg |-> m] : m \in Targets }
       \/ /\ serOp = "rostime"
          /\ serIn \in { [iso |-> i] : i \in IsoTimes }

\* client.py 290-294: get_active_mission on the list the endpoint returned.
GetActiveMission ==
    /\ serOp = "mission"
    /\ ~serDone
    /\ serOut' = ActiveScan(serIn.list, serIn.frame, serIn.stamp)
    /\ serDone' = TRUE
    /\ UNCHANGED <<clientVars, serOp, serIn>>

\* client.py 202-203: ObstaclesDeserializer.from_dict(response.json(), ...)
GetObstacles ==
    /\ serOp = "obstacles"
    /\ ~serDone
    /\ serOut' = ObstaclesFromDict(serIn.data, serIn.frame, serIn.lifetime, serIn.stamp)
    /\ serDone' = TRUE
    /\ UNCHANGED <<clientVars, serOp, serIn>>

\* serializers.py 449-472: TargetSerializer.from_dict(data)
TargetDeserialize ==
    /\ serOp = "target"
    /\ ~serDone
    /\ serOut' = TargetFromDict(serIn.data)
    /\ serDone' = TRUE
    /\ UNCHANGED <<clientVars, serOp, serIn>>

\* serializers.py 427-472: from_msg, then from_dict on its result.
TargetRoundTrip ==
    /\ serOp = "roundtrip"
    /\ ~serDone
    /\ serOut' = [wire |-> TargetFromMsg(serIn.msg),
                  back |-> TargetFromDict(TargetFromMsg(serIn.msg))]
    /\ serDone' = TRUE
    /\ UNCHANGED <<clientVars, serOp, serIn>>

\* serializers.py 45-69: iso8601_to_rostime(iso)
ParseRostime ==
    /\ serOp = "rostime"
    /\ ~serDone
    /\ serOut' = Iso8601ToRostime(serIn.iso)
    /\ serDone' = TRUE
    /\ UNCHANGED <<clientVars, serOp, serIn>>

SerNext ==
    \/ GetActiveMission
    \/ GetObstacles
    \/ TargetDeserialize
    \/ TargetRoundTrip
    \/ ParseRostime

SerSpec == SerInit /\ [][SerNext]_vars

\* ============================================== the serializers' claims
\* The positions of the active records of a list of missions.
ActiveAt(list) == { i \in 1..Len(list) : list[i].active }
Least(S) == CHOOSE i \in S : \A j \in S : i <= j

\* C8: get_active_mission returns the deserialization of the first record,
\* in the order returned, whose active flag is true, and raises LookupError
\* exactly when no record is active (the empty list included).
C8_FirstActiveMission ==
    (serOp = "mission" /\ serDone) =>
        LET list == serIn.list
            A == ActiveAt(list)
        IN  /\ (A = {}) <=> (~serOut.ok /\ serOut.error = "LookupError")
            /\ (A # {}) <=> serOut.ok
            /\ A # {} =>
                 LET m == list[Least(A)]
                 IN  /\ serOut.value = MissionFromDict(m, serIn.frame, serIn.stamp)
                     /\ serOut.value[4].point.y = 110574 * m.id
                     /\ serOut.value[1][1].max_alt = 304800 * m.id

\* C8 witness: [{id 1, inactive}, {id 2, active}] gives the mission with id 2.
C8_Witness ==
    /\ serOp = "mission"
    /\ serDone
    /\ serIn.list = <<Mission(1, FALSE), Mission(2, TRUE)>>
    /\ serOut.ok
    /\ serOut.value[4].point = Point(500000 + 222640, 221148, 0)

\* C9: ObstaclesDeserializer.from_dict never fails on a missing
\* moving_obstacles or stationary_obstacles key: a missing key gives an empty
\* collection, a present key one marker per obstacle in input order (spheres
\* for moving, cylinders for stationary), and every stationary marker's Z
\* position is half its converted height.
C9_ObstaclesOptional ==
    (serOp = "obstacles" /\ serDone) =>
        LET data == serIn.data
            moving == serOut.value[1]
            stationary == serOut.value[2]
        IN  /\ serOut.ok
            /\ "moving_obstacles" \notin DOMAIN data => moving = <<>>
            /\ "stationary_obstacles" \notin DOMAIN data => stationary = <<>>
            /\ "moving_obstacles" \in DOMAIN data =>
                 /\ Len(moving) = Len(data["moving_obstacles"])
                 /\ \A i \in 1..Len(moving) :
                      /\ moving[i].type = "SPHERE"
                      /\ moving[i].scale.x = 3048 * data["moving_obstacles"][i].sphere_radius
                      /\ moving[i].position.z = 3048 * data["moving_obstacles"][i].altitude_msl
            /\ "stationary_obstacles" \in DOMAIN data =>
                 /\ Len(stationary) = Len(data["stationary_obstacles"])
                 /\ \A i \in 1..Len(stationary) :
                      /\ stationary[i].type = "CYLINDER"
                      /\ stationary[i].scale.x =
                            3048 * data["stationary_obstacles"][i].cylinder_radius
                      /\ stationary[i].scale.z =
                            3048 * data["stationary_obstacles"][i].cylinder_height
                      /\ 2 * stationary[i].position.z = stationary[i].scale.z

\* C9 witness: no moving_obstacles key and one cylinder of radius 10 ft and
\* height 20 ft: no sphere, one cylinder centred at 3.048 m.
C9_Witness ==
    /\ serOp = "obstacles"
    /\ serDone
    /\ "moving_obstacles" \notin DOMAIN serIn.data
    /\ "stationary_obstacles" \in DOMAIN serIn.data
    /\ serIn.data["stationary_obstacles"] =
          <<[cylinder_radius |-> 10, cylinder_height |-> 20, latitude |-> 0,
             longitude |-> 0]>>
    /\ serOut.value[1] = <<>>
    /\ Len(serOut.value[2]) = 1
    /\ serOut.value[2][1].position.z = 30480

\* The dictionary d without the keys outside K.
Restrict(d, K) == [k \in (DOMAIN d) \cap K |-> d[k]]

\* C10 as stated: for every input dictionary from_dict yields a Target in
\* which each declared field present with a non-null value holds that value
\* converted to the field's type, and every other declared field its default.
C10_EveryDictConverts ==
    (serOp = "target" /\ serDone) =>
        /\ serOut.ok
        /\ \A a \in SlotSet :
             IF a \in DOMAIN serIn.data /\ serIn.data[a] # PyNone
             THEN serOut.value[a].ty = SlotType(a)
             ELSE serOut.value[a] = DefaultOf(SlotType(a))

\* C10 (amended): TargetSerializer.from_dict raises the conversion's error
\* when a declared field is present with a non-null value that its type's
\* constructor rejects (a non-numeric string for a float field); for every
\* other input it sets every declared field that is present with a non-null
\* value to that value converted to the field's type, leaves every declared
\* field that is null or missing at its default, and the keys that are not
\* declared have no effect on the result.
C10_TargetPermissive ==
    (serOp = "target" /\ serDone) =>
        LET data == serIn.data
            given == { a \in SlotSet : a \in DOMAIN data /\ data[a] # PyNone }
            bad == { a \in given : ~Cast(SlotType(a), data[a]).ok }
        IN  /\ serOut.ok <=> bad = {}
            /\ ~serOut.ok => serOut.error = "ValueError"
            /\ serOut.ok =>
                 /\ DOMAIN serOut.value = SlotSet
                 /\ \A a \in given :
                      /\ serOut.value[a] = Cast(SlotType(a), data[a]).value
                      /\ serOut.value[a].ty = SlotType(a)
                 /\ \A a \in SlotSet \ given :
                      serOut.value[a] = DefaultOf(SlotType(a))
            /\ serOut = TargetFromDict(Restrict(data, SlotSet))

\* C10 witness: {type: "standard", latitude: "7", alphanumeric: null, id: 1}
\* gives type standard, latitude 7.0, and the defaults for the two fields
\* that are null and missing.
C10_Witness ==
    /\ serOp = "target"
    /\ serDone
    /\ serIn.data = ("type" :> PyStr("standard") @@ "latitude" :> PyStr("7")
                        @@ "alphanumeric" :> PyNone @@ "id" :> PyInt(1))
    /\ serOut.ok
    /\ serOut.value = [type |-> PyVal("TargetType", 0, "standard", "str"),
                       latitude |-> PyFloat(7),
                       alphanumeric |-> PyStr(""),
                       autonomous |-> PyBool(FALSE)]

\* C11: serializing a Target with from_msg and deserializing the result with
\* from_dict gives back every field whose value (for a field of an
\* enumeration type, the scalar it holds) is not null; from_msg puts the
\* underlying scalar of each enumeration field, and every other field as it
\* is, in the wire dictionary.
C11_TargetRoundTrip ==
    (serOp = "roundtrip" /\ serDone) =>
        LET t == serIn.msg
            wire == serOut.wire
            back == serOut.back
        IN  /\ DOMAIN wire = SlotSet
            /\ \A a \in SlotSet :
                 IF SlotType(a) \in ENUMERATION_TYPES
                 THEN /\ wire[a].ty = t[a].dty
                      /\ wire[a].n = t[a].n
                      /\ wire[a].s = t[a].s
                      /\ wire[a].ty \notin ENUMERATION_TYPES
                 ELSE wire[a] = t[a]
            /\ back.ok
            /\ \A a \in SlotSet : wire[a] # PyNone => back.value[a] = t[a]

\* C11 witness: a Target with every field filled in comes back unchanged.
C11_Witness ==
    /\ serOp = "roundtrip"
    /\ serDone
    /\ serIn.msg = [type |-> Wrap("TargetType", PyStr("standard")),
                    latitude |-> PyFloat(38),
                    alphanumeric |-> PyStr("A"),
                    autonomous |-> PyBool(TRUE)]
    /\ serOut.wire["type"] = PyStr("standard")
    /\ serOut.back.ok
    /\ serOut.back.value = serIn.msg

\* C12: both retry loops test the cancellation signal at the head of every
\* iteration.  A loop test reached with the signal set ends the call and
\* starts no further iteration, and once the signal is set a call under way
\* ends (every network call in progress returning), however often the
\* server answered FORBIDDEN or the probe failed.
C12_CancelTerminates ==
    /\ [][\A c \in SeqCallers :
            (shutdown /\ pc[c] \in {"check", "wcheck"} /\ pc'[c] # pc[c])
                => (pc'[c] = "done" /\ trace'[c] = trace[c])]_vars
    /\ \A c \in SeqCallers :
         (shutdown /\ pc[c] \notin {"idle", "done"}) ~> (pc[c] = "done")

\* C12 witness: the signal was set during an iteration that the server
\* answered with FORBIDDEN; the call re-authenticated, then saw the signal at
\* the loop test and ended after one send.
C12_Witness ==
    \E c \in SeqCallers :
        /\ shutdown
        /\ op[c] = "request"
        /\ pc[c] = "done"
        /\ cancelSeen[c]
        /\ NSends(c) = 1
        /\ NForbidden(c) = 1
        /\ LoginAccepted(Last(c))

\* The Sessions constructed so far.
SessionsCreated == 0 .. (created - 1)
\* The event a step of caller c appends to its trace, when it appends one.
Appends(c, kinds) ==
    /\ Len(trace'[c]) = Len(trace[c]) + 1
    /\ trace'[c][Len(trace'[c])].e \in kinds

\* C13: there is exactly one current Session in every state (every other
\* Session constructed so far has been closed, and the current one is closed
\* only between close() and the assignment of its replacement); the current
\* Session is closed and replaced only by execute handling a FORBIDDEN
\* response, so login(), wait_for_server() and a request that succeeds or
\* fails with another status or a transport error leave it as it is; every
\* request and login POST goes out on the current Session, which is never
\* one that was closed.
C13_SessionFrame ==
    /\ [](/\ session \in SessionsCreated
          /\ closed \subseteq SessionsCreated
          /\ \A s \in SessionsCreated : s # session => s \in closed
          /\ session \in closed => \E c \in SeqCallers : pc[c] = "new"
          /\ \A c \in SeqCallers :
               (pc[c] = "done" /\ NForbidden(c) = 0) =>
                   \A i \in 1..Len(trace[c]) :
                       trace[c][i].e \in {"send", "resp", "login", "loginresp"}
                           => trace[c][i].session = session)
    /\ [][/\ (session' # session \/ closed' # closed) =>
                \E c \in SeqCallers :
                    /\ op[c] = "request"
                    /\ pc[c] \in {"close", "new"}
                    /\ response[c] = FORBIDDEN
                    /\ pc'[c] # pc[c]
                    /\ session' \notin SessionsCreated \/ session' = session
          /\ \A c \in SeqCallers :
                Appends(c, {"send", "login"}) =>
                    /\ Last(c)' .session = session
                    /\ session \notin closed]_vars

\* C13 witness: an earlier call replaced the first Session on FORBIDDEN; a
\* later request, which failed without any FORBIDDEN answer, ran on the
\* second Session and left it current.
C13_Witness ==
    \E c \in SeqCallers :
        /\ pc[c] = "done"
        /\ op[c] = "request"
        /\ session = 1
        /\ closed = {0}
        /\ NForbidden(c) = 0
        /\ outcome[c].kind = "raised"
        /\ NSends(c) = 1
        /\ Last(c).session = 1

\* C14 as stated: with two callers in execute on one client, access to the
\* Session is serialized: no caller closes or replaces the Session while the
\* other has a request in flight on it (so no request is ever in flight on a
\* closed Session), and no caller discards, because of a FORBIDDEN it
\* received on an older Session, a Session on which the other caller has
\* completed login.
C14_SessionSerialized ==
    /\ \A d \in Callers :
         pc[d] \in {"await", "loginawait"} => inflight[d] \notin closed
    /\ \A c \in Callers : \A d \in Callers \ {c} :
         ~ /\ pc[c] = "new"
           /\ session \in closed
           /\ inflight[c] # session
           /\ \E i \in 1..Len(trace[d]) :
                /\ trace[d][i].e = "loginresp"
                /\ trace[d][i].session = session
                /\ LoginAccepted(trace[d][i])

\* C15 as stated: for every input, before or after the epoch,
\* 0 <= nsecs < 10^9, nsecs is a multiple of 1000, and secs and nsecs
\* together are the parsed instant (a string without offset read as UTC):
\* secs * 10^9 + nsecs is 1000 times the microseconds since the epoch.  The
\* instant is whole seconds plus microseconds, so the equation is stated on
\* the difference of the two sides, in microseconds.
C15_RostimeIsInstant ==
    (serOp = "rostime" /\ serDone) =>
        LET iso == serIn.iso
            whole == iso.sec - (IF iso.hasOffset THEN iso.offset ELSE 0)
        IN  /\ serOut.nsecs >= 0
            /\ serOut.nsecs < 1000000000
            /\ serOut.nsecs % 1000 = 0
            /\ (serOut.secs - whole) * 1000000
                  + ((serOut.nsecs \div 1000) - iso.us) = 0

\* The events of a trace that are HTTP requests going out.
IsHttpRequest(ev) == ev.e \in {"send", "login", "probe"}

\* C16: every HTTP request the client sends (a resource request, its re-send
\* after a re-authentication, the login POST, the reachability probe)
\* carries the timeout given at construction, and no operation changes that
\* value.
C16_UniformTimeout ==
    /\ [](/\ timeout \in Timeouts
          /\ \A c \in SeqCallers : \A i \in 1..Len(trace[c]) :
               IsHttpRequest(trace[c][i]) => trace[c][i].timeout = timeout)
    /\ [][/\ timeout' = timeout
          /\ \A c \in SeqCallers :
               Appends(c, {"send", "login", "probe"})
                   => Last(c)' .timeout = timeout]_vars

\* C16 witness: a request, the login POST of its re-authentication and its
\* re-send have all gone out with the construction-time timeout.
C16_Witness ==
    \E c \in SeqCallers :
        /\ pc[c] = "done"
        /\ NSends(c) = 2
        /\ NLogins(c) = 1
        /\ Count(c, IsHttpRequest) = 3
        /\ \A i \in 1..Len(trace[c]) :
             IsHttpRequest(trace[c][i]) => trace[c][i].timeout = timeout

====
